---- MODULE Spec2Model ----
(***************************************************************************)
(* A model of sleeper_fetch.py: the snapshot-assembly pipeline (main), the *)
(* retrying HTTP helper (get), the players-index cache                     *)
(* (get_players_index), the per-week fetchers, the draft package fetcher   *)
(* and the identifier resolver.                                            *)
(*                                                                         *)
(* Python values are tagged records, so that values of different Python    *)
(* types can be compared: None, PyStr(<<chars>>), PyInt(n), PyList(<<..>>).*)
(* A str is a sequence of one-character strings.  A dict is a function     *)
(* from its keys to its values; a missing key is a key outside its DOMAIN. *)
(***************************************************************************)
EXTENDS Integers, Sequences, FiniteSets, TLC

\* ------------------------------------------------------------------------
\* Bounds of the model
\* ------------------------------------------------------------------------
\* The largest week number the remote NFL state reports.
MaxWeek == 2
\* The number of (slot, identifier) placements in a drawn league payload.
MaxIds == 2
\* Runs of main (and direct calls of get_players_index) in one behaviour.
MaxRuns == 2
\* Requests that fail with the retries exhausted, in one behaviour.
MaxFailures == 2
\* The last second of the UTC clock.
MaxClock == 2

\* ------------------------------------------------------------------------
\* Program constants
\* ------------------------------------------------------------------------
MAX_RETRIES == 3
SLIM_PLAYERS_INDEX_IN_SNAPSHOT == TRUE
NAME_ALL_WEEKS == FALSE

\* ------------------------------------------------------------------------
\* Python values
\* ------------------------------------------------------------------------
None == [none |-> TRUE]
PyStr(s) == [str |-> s]
PyInt(n) == [int |-> n]
PyList(s) == [list |-> s]
EmptyDict == <<>>

IsStr(v) == "str" \in DOMAIN v
IsInt(v) == "int" \in DOMAIN v
IsList(v) == "list" \in DOMAIN v

\* Python truthiness, as used by `x or default` and `if not x`.
Truthy(v) ==
    /\ v # None
    /\ IsStr(v) => v.str # <<>>
    /\ IsInt(v) => v.int # 0
    /\ IsList(v) => v.list # <<>>

\* d.get(k)
PyGet(d, k) == IF k \in DOMAIN d THEN d[k] ELSE None

\* d.get(k, default)
PyGetOr(d, k, default) == IF k \in DOMAIN d THEN d[k] ELSE default

\* (x or []) for a value that is a list or None, as a sequence
ListOrEmpty(v) == IF Truthy(v) /\ IsList(v) THEN v.list ELSE <<>>

Range(s) == {s[i] : i \in DOMAIN s}

Letters ==
    {"A", "B", "C", "D", "E", "F", "G", "H", "I", "J", "K", "L", "M", "N",
     "O", "P", "Q", "R", "S", "T", "U", "V", "W", "X", "Y", "Z",
     "a", "b", "c", "d", "e", "f", "g", "h", "i", "j", "k", "l", "m", "n",
     "o", "p", "q", "r", "s", "t", "u", "v", "w", "x", "y", "z"}

Digits == <<"0", "1", "2", "3", "4", "5", "6", "7", "8", "9">>

\* str.isalpha(): non-empty and every character a letter
IsAlpha(s) == s # <<>> /\ \A i \in DOMAIN s : s[i] \in Letters

\* str.isdigit()
IsDigits(s) == s # <<>> /\ \A i \in DOMAIN s : s[i] \in Range(Digits)

RECURSIVE NatStr(_)
NatStr(n) ==
    IF n < 10 THEN <<Digits[n + 1]>>
    ELSE NatStr(n \div 10) \o <<Digits[(n % 10) + 1]>>

\* str(n) of an int
IntStr(n) == IF n < 0 THEN <<"-">> \o NatStr(0 - n) ELSE NatStr(n)

\* str(v)
Str(v) ==
    IF IsStr(v) THEN v.str
    ELSE IF IsInt(v) THEN IntStr(v.int)
    ELSE <<"N", "o", "n", "e">>

DigitValue(c) == CHOOSE d \in 0..9 : Digits[d + 1] = c

RECURSIVE DigitsValue(_)
DigitsValue(s) ==
    IF s = <<>> THEN 0
    ELSE 10 * DigitsValue(SubSeq(s, 1, Len(s) - 1)) + DigitValue(s[Len(s)])

\* int(v): [ok |-> TRUE, v |-> n], or ok FALSE where Python raises
\* (ValueError for a non-numeric str, TypeError for None or a list).
PyIntOf(v) ==
    IF IsInt(v) THEN [ok |-> TRUE, v |-> v.int]
    ELSE IF IsStr(v) /\ IsDigits(v.str)
        THEN [ok |-> TRUE, v |-> DigitsValue(v.str)]
    ELSE IF IsStr(v) /\ Len(v.str) > 1 /\ v.str[1] = "-" /\ IsDigits(Tail(v.str))
        THEN [ok |-> TRUE, v |-> 0 - DigitsValue(Tail(v.str))]
    ELSE [ok |-> FALSE, v |-> 0]

Max(a, b) == IF a >= b THEN a ELSE b

\* ------------------------------------------------------------------------
\* resolve_ids, name_matchups, collect_used_player_ids
\* ------------------------------------------------------------------------
\* Team DEFs are 2-3 letter codes like "SF", "PHI".
IsDefCode(pid) == IsStr(pid) /\ IsAlpha(pid.str) /\ 2 <= Len(pid.str) /\ Len(pid.str) <= 3

DefRecord(pid) ==
    [id |-> pid,
     name |-> PyStr(pid.str \o <<" ", "D", "/", "S", "T">>),
     pos |-> PyStr(<<"D", "E", "F">>),
     team |-> pid]

\* idx.get(str(pid)) or {}
IndexInfo(pid, idx) == IF Str(pid) \in DOMAIN idx THEN idx[Str(pid)] ELSE EmptyDict

PlayerRecordSwapped(pid, idx) ==
    LET info == IndexInfo(pid, idx)
    IN [id |-> PyStr(Str(pid)),
        name |-> IF Truthy(PyGet(info, "name")) THEN PyGet(info, "name") ELSE PyStr(Str(pid)),
        pos |-> PyGet(info, "team"),
        team |-> PyGet(info, "pos"),
        status |-> PyGet(info, "status")]

PlayerRecord(pid, idx) ==
    LET info == IndexInfo(pid, idx)
    IN [id |-> PyStr(Str(pid)),
        name |-> IF Truthy(PyGet(info, "name")) THEN PyGet(info, "name") ELSE PyStr(Str(pid)),
        pos |-> PyGet(info, "pos"),
        team |-> PyGet(info, "team"),
        status |-> PyGet(info, "status")]

ResolveOne(pid, idx) == IF IsDefCode(pid) THEN DefRecord(pid) ELSE PlayerRecord(pid, idx)

\* resolve_ids(ids, idx): ids is a PyList or None
resolve_ids(ids, idx) ==
    IF ~Truthy(ids) THEN <<>>
    ELSE [i \in DOMAIN ids.list |-> ResolveOne(ids.list[i], idx)]

NamedMatchup(m, idx) ==
    [matchup_id |-> PyGet(m, "matchup_id"),
     roster_id |-> PyGet(m, "roster_id"),
     points |-> PyGetOr(m, "points", PyInt(0)),
     starters |-> resolve_ids(PyGet(m, "starters"), idx),
     players |-> resolve_ids(PyGet(m, "players"), idx),
     players_points |-> PyGetOr(m, "players_points", EmptyDict)]

\* name_matchups(matchups, idx)
name_matchups(matchups, idx) == [i \in DOMAIN matchups |-> NamedMatchup(matchups[i], idx)]

\* The identifiers one record contributes under the given keys: DEF codes
\* are skipped, every other identifier is stringified.
UsedIn(rec, keys) ==
    UNION {{Str(pid) : pid \in {p \in Range(ListOrEmpty(PyGet(rec, key))) : ~IsDefCode(p)}}
           : key \in keys}

RosterKeysNoReserve == {"players", "starters"}

RosterKeys == {"players", "starters", "reserve"}

MatchupKeys == {"players", "starters"}

\* collect_used_player_ids(rosters, matchups_by_week)
collect_used_player_ids(rs, mbw) ==
    UNION {UsedIn(rs[i], RosterKeys) : i \in DOMAIN rs}
    \cup UNION {UNION {UsedIn(mbw.by_week[wk][i], MatchupKeys) : i \in DOMAIN mbw.by_week[wk]}
                : wk \in DOMAIN mbw.by_week}

\* ------------------------------------------------------------------------
\* The remote source: what each endpoint answers when a request succeeds
\* ------------------------------------------------------------------------
Season == <<"2", "0", "2", "5">>

\* /state/nfl: the week is absent (null), 0 between weeks, or 1..MaxWeek
RemoteStates ==
    {[week |-> v, season |-> PyStr(Season)] : v \in {None, PyInt(0)} \cup {PyInt(k) : k \in 1..MaxWeek}}

RemoteLeague == [league_id |-> PyStr(<<"L">>), name |-> PyStr(<<"T", "h", "e">>)]

RemoteUsers == <<[user_id |-> PyStr(<<"u", "1">>), display_name |-> PyStr(<<"A", "n", "n">>)]>>

RemoteRosters ==
    <<[roster_id |-> PyInt(1), owner_id |-> PyStr(<<"u", "1">>),
       settings |-> [fpts |-> PyInt(101), fpts_decimal |-> PyInt(25)],
       players |-> PyList(<<PyStr(<<"7">>), PyInt(12), PyStr(<<"S", "F">>)>>),
       starters |-> PyList(<<PyStr(<<"7">>), PyStr(<<"S", "F">>)>>),
       reserve |-> None]>>

\* /league/<id>/matchups/<w>: one entry, whose matchup_id is the week
RemoteMatchups(wk) ==
    <<[matchup_id |-> PyInt(wk), roster_id |-> PyInt(1),
       starters |-> PyList(<<PyStr(<<"7">>), PyStr(<<"S", "F">>)>>),
       players |-> PyList(<<PyStr(<<"7">>), PyInt(12), PyInt(30 + wk), PyStr(<<"S", "F">>)>>)]>>

\* /league/<id>/transactions/<w>
RemoteTransactions(wk) == <<[transaction_id |-> PyInt(100 + wk), leg |-> PyInt(wk)]>>

Draft1 == <<"d", "1">>

\* /league/<id>/drafts: one entry without a draft_id, one with
RemoteDrafts == <<[season |-> PyStr(Season)], [draft_id |-> PyStr(Draft1), season |-> PyStr(Season)]>>

RemotePicks(draft_id) == <<[draft_id |-> PyStr(draft_id), pick_no |-> PyInt(1), player_id |-> PyStr(<<"7">>)]>>

RemoteTradedPicks(draft_id) == <<[draft_id |-> PyStr(draft_id), round |-> PyInt(2)]>>

RemoteLeagueTradedPicks == <<[season |-> PyStr(Season), round |-> PyInt(1)]>>

\* /players/nfl: the catalog, which the remote changes over time
CatalogA ==
    (<<"7">> :> [full_name |-> PyStr(<<"D", "o", "e">>), first_name |-> PyStr(<<"J">>),
                 position |-> PyStr(<<"R", "B">>), team |-> PyStr(<<"K", "C">>),
                 status |-> PyStr(<<"A">>), age |-> PyInt(25)])
    @@ (<<"1", "2">> :> [first_name |-> PyStr(<<"M", "o">>), position |-> PyStr(<<"W", "R">>),
                        team |-> None, status |-> None])

CatalogB ==
    (<<"7">> :> [full_name |-> PyStr(<<"D", "o", "e">>), first_name |-> PyStr(<<"J">>),
                 position |-> PyStr(<<"R", "B">>), team |-> PyStr(<<"S", "F">>),
                 status |-> PyStr(<<"A">>), age |-> PyInt(26)])
    @@ (<<"1", "2">> :> [position |-> PyStr(<<"K">>), status |-> PyStr(<<"A">>)])
    @@ (<<"S", "F">> :> [position |-> PyStr(<<"D", "E", "F">>), team |-> PyStr(<<"S", "F">>)])

RemoteCatalogs == {CatalogA, CatalogB}

\* ------------------------------------------------------------------------
\* Files
\* ------------------------------------------------------------------------
NoFile == [nofile |-> TRUE]

\* json.dump(obj, f): the object's members as a set of (key, value) pairs
JsonDumpDict(obj) == [json |-> {<<k, obj[k]>> : k \in DOMAIN obj}]

\* json.load(f) of a dumped dict
JsonLoadDict(file) ==
    [k \in {m[1] : m \in file.json} |-> (CHOOSE m \in file.json : m[1] = k)[2]]

\* json.dump(snapshot, f, indent=2)
JsonDumpSnapshot(snap) == [json |-> snap, indent |-> 2]

\* OUTDIR / f"{season}-wk{week}-{ts}.json"
ArchivePath(s, wk, ts) == <<s, IntStr(wk), IntStr(ts)>>

\* ------------------------------------------------------------------------
\* State
\* ------------------------------------------------------------------------
VARIABLES
    entry,                  \* the function called from outside: main, or one called directly
    pc,                     \* the place in the code
    attempt,                \* get: the attempt of the request in flight
    runs,                   \* calls from outside so far
    failures,               \* requests that failed with the retries exhausted so far
    now,                    \* the UTC clock, in seconds, as last read
    catalog,                \* the catalog the remote serves now
    cache_file,             \* PLAYERS_CACHE
    archive,                \* the timestamped files of OUTDIR: path -> content
    latest,                 \* OUTDIR / "latest.json"
    writes,                 \* path -> the number of times it was opened for writing
    state, week, season, league, users, rosters,
    week_to, w, by_week,
    matchups_all_weeks, transactions_all_weeks, drafts_pkg, league_traded_picks,
    ret_pc, drafts, d, picks_by_draft, traded_picks_by_draft,
    force_refresh, players_index_full,
    used_ids, players_index, rosters_named, matchups_named_current,
    out,                    \* resolve_ids: the list it returns
    fetched_at, snapshot, path_ts,
    fetch_log,              \* the get calls of this run, in order, with their outcome
    start,                  \* the files as they were when this run began
    prev                    \* what the previous get_players_index call returned

ctl == <<entry, pc, attempt>>
env == <<runs, failures, now, catalog>>
files == <<cache_file, archive, latest, writes>>
fetched == <<state, week, season, league, users, rosters>>
weekLocals == <<week_to, w, by_week>>
results == <<matchups_all_weeks, transactions_all_weeks, drafts_pkg, league_traded_picks>>
draftLocals == <<ret_pc, drafts, d, picks_by_draft, traded_picks_by_draft>>
indexLocals == <<force_refresh, players_index_full>>
derived == <<used_ids, players_index, rosters_named, matchups_named_current, out>>
saveLocals == <<fetched_at, snapshot, path_ts>>
ghost == <<fetch_log, start, prev>>

vars == <<ctl, env, files, fetched, weekLocals, results, draftLocals, indexLocals, derived,
          saveLocals, ghost>>

\* A local that is not bound yet
Unset == [unset |-> TRUE]

\* ------------------------------------------------------------------------
\* get: one request with retries
\* ------------------------------------------------------------------------
GetSites ==
    {"state", "league", "users", "rosters", "matchups", "transactions", "drafts", "picks",
     "traded_picks", "league_traded_picks", "catalog"}

\* The record of one get call: the endpoint, its argument, whether it returned
Logged(ep, arg, ok) == Append(fetch_log, [ep |-> ep, arg |-> arg, ok |-> ok])

\* An attempt fails (a transient status, a network or a decode error) and
\* another one is left: back off and try again.
GetRetry ==
    /\ pc \in GetSites
    /\ attempt < MAX_RETRIES
    /\ attempt' = attempt + 1
    /\ UNCHANGED <<entry, pc, env, files, fetched, weekLocals, results, draftLocals, indexLocals,
                   derived, saveLocals, ghost>>

\* An attempt succeeds: get returns the decoded body.
Returns(site) ==
    /\ pc = site
    /\ attempt' = 1
    /\ UNCHANGED failures

\* The last attempt fails: get raises.
Raises(site) ==
    /\ pc = site
    /\ attempt = MAX_RETRIES
    /\ failures < MaxFailures
    /\ failures' = failures + 1
    /\ attempt' = 1

\* An exception nobody catches leaves main (or the function called): no
\* handler and no finally clause stands between the request and the caller.
Crash ==
    /\ pc' = "crashed"
    /\ UNCHANGED files

\* ------------------------------------------------------------------------
\* fetch_matchups_by_week, fetch_transactions_by_week
\* ------------------------------------------------------------------------
\* week_to = int(week_to or 1), and 1 if that raises
CoerceWeekTo(raw) ==
    LET r == PyIntOf(IF Truthy(raw) THEN raw ELSE PyInt(1))
    IN IF r.ok THEN r.v ELSE 1

\* The last week of range(1, max(week_to, 1) + 1)
LastWeek(n) == Max(n, 1)

\* by_week[str(w)] = value
SetWeek(value) == (IntStr(w) :> value) @@ by_week

\* One pass of the loop of fetch_matchups_by_week, and its return after the last
MatchupsStep(new) ==
    IF w < LastWeek(week_to)
    THEN /\ w' = w + 1
         /\ by_week' = new
         /\ UNCHANGED <<pc, week_to, matchups_all_weeks>>
    ELSE /\ matchups_all_weeks' = [by_week |-> new]
         /\ IF entry = "main"
            THEN \* main goes on to fetch_transactions_by_week(LEAGUE_ID, week)
                 /\ pc' = "transactions"
                 /\ week_to' = CoerceWeekTo(PyInt(week))
                 /\ w' = 1
                 /\ by_week' = EmptyDict
            ELSE /\ pc' = "returned"
                 /\ by_week' = new
                 /\ UNCHANGED <<week_to, w>>

FetchMatchupsOk ==
    /\ Returns("matchups")
    /\ MatchupsStep(SetWeek(RemoteMatchups(w)))
    /\ fetch_log' = Logged("matchups", IntStr(w), TRUE)
    /\ UNCHANGED <<entry, runs, now, catalog, files, fetched, transactions_all_weeks, drafts_pkg,
                   league_traded_picks, draftLocals, indexLocals, derived, saveLocals, start, prev>>

FetchMatchupsRaiseDropsWeek ==
    /\ Raises("matchups")
    /\ MatchupsStep(by_week)
    /\ fetch_log' = Logged("matchups", IntStr(w), FALSE)
    /\ UNCHANGED <<entry, runs, now, catalog, files, fetched, transactions_all_weeks, drafts_pkg,
                   league_traded_picks, draftLocals, indexLocals, derived, saveLocals, start, prev>>

FetchMatchupsRaise ==
    /\ Raises("matchups")
    /\ MatchupsStep(SetWeek(<<>>))
    /\ fetch_log' = Logged("matchups", IntStr(w), FALSE)
    /\ UNCHANGED <<entry, runs, now, catalog, files, fetched, transactions_all_weeks, drafts_pkg,
                   league_traded_picks, draftLocals, indexLocals, derived, saveLocals, start, prev>>

\* One pass of the loop of fetch_transactions_by_week, and its return after the last
TransactionsStep(new) ==
    IF w < LastWeek(week_to)
    THEN /\ w' = w + 1
         /\ by_week' = new
         /\ UNCHANGED <<pc, transactions_all_weeks, draftLocals>>
    ELSE /\ transactions_all_weeks' = [by_week |-> new]
         /\ by_week' = new
         /\ UNCHANGED w
         /\ IF entry = "main"
            THEN \* main goes on to fetch_drafts_package(LEAGUE_ID)
                 /\ pc' = "drafts"
                 /\ ret_pc' = "league_traded_picks"
                 /\ UNCHANGED <<drafts, d, picks_by_draft, traded_picks_by_draft>>
            ELSE /\ pc' = "returned"
                 /\ UNCHANGED draftLocals

FetchTransactionsOk ==
    /\ Returns("transactions")
    /\ TransactionsStep(SetWeek(RemoteTransactions(w)))
    /\ fetch_log' = Logged("transactions", IntStr(w), TRUE)
    /\ UNCHANGED <<entry, runs, now, catalog, files, fetched, week_to, matchups_all_weeks,
                   drafts_pkg, league_traded_picks, indexLocals, derived, saveLocals, start, prev>>

FetchTransactionsRaise ==
    /\ Raises("transactions")
    /\ TransactionsStep(SetWeek(<<>>))
    /\ fetch_log' = Logged("transactions", IntStr(w), FALSE)
    /\ UNCHANGED <<entry, runs, now, catalog, files, fetched, week_to, matchups_all_weeks,
                   drafts_pkg, league_traded_picks, indexLocals, derived, saveLocals, start, prev>>

\* ------------------------------------------------------------------------
\* fetch_drafts_package
\* ------------------------------------------------------------------------
\* The next entry of drafts, from index i on, that has a draft_id (the loop
\* skips the others); 0 when there is none
NextDraft(ds, i) ==
    LET with == {j \in DOMAIN ds : j >= i /\ Truthy(PyGet(ds[j], "draft_id"))}
    IN IF with = {} THEN 0 ELSE CHOOSE j \in with : \A k \in with : j <= k

DraftId(ds, i) == PyGet(ds[i], "draft_id").str

Package(ds, picks, traded) ==
    [drafts |-> ds, picks_by_draft |-> picks, traded_picks_by_draft |-> traded]

\* name_matchups over every week, when NAME_ALL_WEEKS asks for it
AllWeeksNamed(mbw, idx) ==
    [by_week |-> [wk \in DOMAIN mbw.by_week |-> name_matchups(mbw.by_week[wk], idx)]]

\* The snapshot main composes, given the draft package fetched in its place
\* (the "endpoints" member and the league's id and name are fixed strings)
BuildSnapshot(pkg) ==
    LET snap == [snapshot_version |-> 3,
                 fetched_at |-> fetched_at,
                 season |-> season,
                 week |-> week,
                 state |-> state,
                 league |-> [sleeper_league_obj |-> league],
                 users |-> users,
                 rosters |-> rosters,
                 rosters_named |-> rosters_named,
                 matchups_all_weeks |-> matchups_all_weeks,
                 matchups_named_current |-> matchups_named_current,
                 transactions_all_weeks |-> transactions_all_weeks,
                 league_traded_picks |-> league_traded_picks,
                 drafts_pkg |-> pkg,
                 players_index |-> players_index]
    IN IF NAME_ALL_WEEKS
       THEN snap @@ [matchups_all_weeks_named |->
                        AllWeeksNamed(matchups_all_weeks, players_index)]
       ELSE snap

\* fetch_drafts_package returns pkg to the place main called it from
DraftsReturn(pkg) ==
    IF ret_pc = "league_traded_picks"
    THEN /\ drafts_pkg' = pkg
         /\ pc' = "league_traded_picks"
         /\ UNCHANGED snapshot
    ELSE /\ snapshot' = BuildSnapshot(pkg)
         /\ pc' = "write_archive"
         /\ UNCHANGED drafts_pkg

\* The loop of fetch_drafts_package moves to the draft at index i, or ends
DraftsNext(ds, i, picks, traded) ==
    IF NextDraft(ds, i) # 0
    THEN /\ d' = NextDraft(ds, i)
         /\ pc' = "picks"
         /\ UNCHANGED <<drafts_pkg, snapshot>>
    ELSE /\ d' = 0
         /\ DraftsReturn(Package(ds, picks, traded))

FetchDraftsOk ==
    /\ Returns("drafts")
    /\ drafts' = RemoteDrafts
    /\ picks_by_draft' = EmptyDict
    /\ traded_picks_by_draft' = EmptyDict
    /\ DraftsNext(RemoteDrafts, 1, EmptyDict, EmptyDict)
    /\ fetch_log' = Logged("drafts", <<>>, TRUE)
    /\ UNCHANGED <<entry, runs, now, catalog, files, fetched, weekLocals, matchups_all_weeks,
                   transactions_all_weeks, league_traded_picks, ret_pc, indexLocals, derived,
                   fetched_at, path_ts, start, prev>>

FetchDraftsRaise ==
    /\ Raises("drafts")
    /\ Crash
    /\ fetch_log' = Logged("drafts", <<>>, FALSE)
    /\ UNCHANGED <<entry, runs, now, catalog, fetched, weekLocals, results, draftLocals,
                   indexLocals, derived, saveLocals, start, prev>>

PicksStep(value, ok) ==
    /\ picks_by_draft' = (DraftId(drafts, d) :> value) @@ picks_by_draft
    /\ pc' = "traded_picks"
    /\ fetch_log' = Logged("picks", DraftId(drafts, d), ok)
    /\ UNCHANGED <<entry, runs, now, catalog, files, fetched, weekLocals, results, ret_pc, drafts,
                   d, traded_picks_by_draft, indexLocals, derived, saveLocals, start, prev>>

FetchPicksOk == Returns("picks") /\ PicksStep(RemotePicks(DraftId(drafts, d)), TRUE)

FetchPicksRaise == Raises("picks") /\ PicksStep(<<>>, FALSE)

TradedPicksStep(value, ok) ==
    LET traded == (DraftId(drafts, d) :> value) @@ traded_picks_by_draft
    IN /\ traded_picks_by_draft' = traded
       /\ DraftsNext(drafts, d + 1, picks_by_draft, traded)
       /\ fetch_log' = Logged("traded_picks", DraftId(drafts, d), ok)
       /\ UNCHANGED <<entry, runs, now, catalog, files, fetched, weekLocals, matchups_all_weeks,
                      transactions_all_weeks, league_traded_picks, ret_pc, drafts, picks_by_draft,
                      indexLocals, derived, fetched_at, path_ts, start, prev>>

FetchTradedPicksOk ==
    Returns("traded_picks") /\ TradedPicksStep(RemoteTradedPicks(DraftId(drafts, d)), TRUE)

FetchTradedPicksRaise == Raises("traded_picks") /\ TradedPicksStep(<<>>, FALSE)

\* ------------------------------------------------------------------------
\* get_players_index
\* ------------------------------------------------------------------------
\* The slim record of one catalog entry
LiteEntry(pdata) ==
    [name |-> IF Truthy(PyGet(pdata, "full_name")) THEN PyGet(pdata, "full_name")
              ELSE PyGet(pdata, "first_name"),
     pos |-> PyGet(pdata, "position"),
     team |-> PyGet(pdata, "team"),
     status |-> PyGet(pdata, "status")]

Lite(players_all) == [pid \in DOMAIN players_all |-> LiteEntry(players_all[pid])]

CacheHitNever == FALSE

\* PLAYERS_CACHE.exists() and not force_refresh
CacheHit == cache_file # NoFile /\ ~force_refresh

\* The last two calls of get_players_index, the older first
Remember(call) == <<prev[2], call>>

NoCall == [ok |-> FALSE, force |-> FALSE, ret |-> EmptyDict]

\* get_players_index returns index to its caller
PlayersIndexReturn(index) ==
    /\ players_index_full' = index
    /\ prev' = Remember([ok |-> TRUE, force |-> force_refresh, ret |-> index])
    /\ pc' = IF entry = "main" THEN "slim" ELSE "returned"

\* The cache file is there and no refresh is forced: load it
PlayersIndexLoad ==
    /\ pc = "players_index"
    /\ CacheHit
    /\ PlayersIndexReturn(JsonLoadDict(cache_file))
    /\ UNCHANGED <<entry, attempt, env, files, fetched, weekLocals, results, draftLocals,
                   force_refresh, derived, saveLocals, fetch_log, start>>

\* Otherwise: download the catalog
PlayersIndexMiss ==
    /\ pc = "players_index"
    /\ ~CacheHit
    /\ pc' = "catalog"
    /\ UNCHANGED <<entry, attempt, env, files, fetched, weekLocals, results, draftLocals,
                   indexLocals, derived, saveLocals, ghost>>

FetchCatalogOk ==
    /\ Returns("catalog")
    /\ cache_file' = JsonDumpDict(Lite(catalog))
    /\ writes' = [writes EXCEPT !.cache = @ + 1]
    /\ PlayersIndexReturn(Lite(catalog))
    /\ fetch_log' = Logged("catalog", <<>>, TRUE)
    /\ UNCHANGED <<entry, runs, now, catalog, archive, latest, fetched, weekLocals, results,
                   draftLocals, force_refresh, derived, saveLocals, start>>

FetchCatalogRaiseTruncates ==
    /\ Raises("catalog")
    /\ pc' = "crashed"
    /\ cache_file' = JsonDumpDict(EmptyDict)
    /\ writes' = [writes EXCEPT !.cache = @ + 1]
    /\ prev' = Remember(NoCall)
    /\ fetch_log' = Logged("catalog", <<>>, FALSE)
    /\ UNCHANGED <<entry, runs, now, catalog, archive, latest, fetched, weekLocals, results,
                   draftLocals, indexLocals, derived, saveLocals, start>>

FetchCatalogRaise ==
    /\ Raises("catalog")
    /\ Crash
    /\ prev' = Remember(NoCall)
    /\ fetch_log' = Logged("catalog", <<>>, FALSE)
    /\ UNCHANGED <<entry, runs, now, catalog, fetched, weekLocals, results, draftLocals,
                   indexLocals, derived, saveLocals, start>>

\* ------------------------------------------------------------------------
\* main
\* ------------------------------------------------------------------------
\* Nothing runs: before the first call, or after one returned or raised
AtRest == pc \in {"idle", "done", "returned", "crashed"}

FilesNow(arg) ==
    [archive |-> archive, latest |-> latest, cache_file |-> cache_file, writes |-> writes,
     arg |-> arg]

\* A call from outside begins: its locals are not bound yet
Begin(fn, arg) ==
    /\ AtRest
    /\ runs < MaxRuns
    /\ runs' = runs + 1
    /\ entry' = fn
    /\ fetch_log' = <<>>
    /\ start' = FilesNow(arg)
    /\ state' = Unset /\ week' = 0 /\ season' = <<>> /\ league' = Unset
    /\ users' = <<>> /\ rosters' = <<>>
    /\ matchups_all_weeks' = Unset /\ transactions_all_weeks' = Unset
    /\ drafts_pkg' = Unset /\ league_traded_picks' = <<>>
    /\ ret_pc' = "" /\ drafts' = <<>> /\ d' = 0
    /\ picks_by_draft' = EmptyDict /\ traded_picks_by_draft' = EmptyDict
    /\ players_index_full' = EmptyDict
    /\ used_ids' = {} /\ players_index' = EmptyDict
    /\ rosters_named' = <<>> /\ matchups_named_current' = <<>>
    /\ fetched_at' = 0 /\ snapshot' = Unset /\ path_ts' = <<>>
    /\ UNCHANGED <<attempt, failures, now, catalog, files, prev>>

StartMain ==
    /\ Begin("main", None)
    /\ pc' = "state"
    /\ week_to' = 0 /\ w' = 0 /\ by_week' = EmptyDict
    /\ force_refresh' = FALSE
    /\ out' = <<>>

\* week = int(state.get("week") or 1), 1 if that raises or is not positive
CoerceWeek(st) ==
    LET r == PyIntOf(IF Truthy(PyGet(st, "week")) THEN PyGet(st, "week") ELSE PyInt(1))
    IN IF r.ok /\ r.v > 0 THEN r.v ELSE 1

\* season = str(state.get("season") or "")
SeasonOf(st) == IF Truthy(PyGet(st, "season")) THEN Str(PyGet(st, "season")) ELSE <<>>

FetchStateOk ==
    /\ Returns("state")
    /\ \E st \in RemoteStates :
        /\ state' = st
        /\ week' = CoerceWeek(st)
        /\ season' = SeasonOf(st)
    /\ pc' = "league"
    /\ fetch_log' = Logged("state", <<>>, TRUE)
    /\ UNCHANGED <<entry, runs, now, catalog, files, league, users, rosters, weekLocals, results,
                   draftLocals, indexLocals, derived, saveLocals, start, prev>>

FetchLeagueOk ==
    /\ Returns("league")
    /\ league' = RemoteLeague
    /\ pc' = "users"
    /\ fetch_log' = Logged("league", <<>>, TRUE)
    /\ UNCHANGED <<entry, runs, now, catalog, files, state, week, season, users, rosters,
                   weekLocals, results, draftLocals, indexLocals, derived, saveLocals, start, prev>>

FetchUsersOk ==
    /\ Returns("users")
    /\ users' = RemoteUsers
    /\ pc' = "rosters"
    /\ fetch_log' = Logged("users", <<>>, TRUE)
    /\ UNCHANGED <<entry, runs, now, catalog, files, state, week, season, league, rosters,
                   weekLocals, results, draftLocals, indexLocals, derived, saveLocals, start, prev>>

\* rosters = get(...), then main calls fetch_matchups_by_week(LEAGUE_ID, week)
FetchRostersOk ==
    /\ Returns("rosters")
    /\ rosters' = RemoteRosters
    /\ pc' = "matchups"
    /\ week_to' = CoerceWeekTo(PyInt(week))
    /\ w' = 1
    /\ by_week' = EmptyDict
    /\ fetch_log' = Logged("rosters", <<>>, TRUE)
    /\ UNCHANGED <<entry, runs, now, catalog, files, state, week, season, league, users,
                   results, draftLocals, indexLocals, derived, saveLocals, start, prev>>

RequiredSites == {"state", "league", "users", "rosters"}

FetchRequiredRaiseAbsorbed ==
    /\ Raises("rosters")
    /\ rosters' = <<>>
    /\ pc' = "matchups"
    /\ week_to' = CoerceWeekTo(PyInt(week))
    /\ w' = 1
    /\ by_week' = EmptyDict
    /\ fetch_log' = Logged("rosters", <<>>, FALSE)
    /\ UNCHANGED <<entry, runs, now, catalog, files, state, week, season, league, users,
                   results, draftLocals, indexLocals, derived, saveLocals, start, prev>>

\* A required top-level fetch raises: nothing in main catches it
FetchRequiredRaise ==
    /\ \E site \in RequiredSites :
        /\ Raises(site)
        /\ fetch_log' = Logged(site, <<>>, FALSE)
    /\ Crash
    /\ UNCHANGED <<entry, runs, now, catalog, fetched, weekLocals, results, draftLocals,
                   indexLocals, derived, saveLocals, start, prev>>

\* league_traded_picks = get(...), or [] if it raises; then
\* players_index_full = get_players_index(force_refresh=False)
LeagueTradedPicksStep(value, ok) ==
    /\ league_traded_picks' = value
    /\ pc' = "players_index"
    /\ force_refresh' = FALSE
    /\ fetch_log' = Logged("league_traded_picks", <<>>, ok)
    /\ UNCHANGED <<entry, runs, now, catalog, files, fetched, weekLocals, matchups_all_weeks,
                   transactions_all_weeks, drafts_pkg, draftLocals, players_index_full, derived,
                   saveLocals, start, prev>>

FetchLeagueTradedPicksOk ==
    Returns("league_traded_picks") /\ LeagueTradedPicksStep(RemoteLeagueTradedPicks, TRUE)

FetchLeagueTradedPicksRaise ==
    Raises("league_traded_picks") /\ LeagueTradedPicksStep(<<>>, FALSE)

SlimIndexEmpty(full, used) == [pid \in used |-> EmptyDict]

\* {pid: players_index_full.get(pid, {}) for pid in used_ids}
SlimIndex(full, used) == [pid \in used |-> IF pid \in DOMAIN full THEN full[pid] ELSE EmptyDict]

\* The players_index of the snapshot: slimmed to the identifiers in use, or whole
SlimPlayersIndex ==
    /\ pc = "slim"
    /\ IF SLIM_PLAYERS_INDEX_IN_SNAPSHOT
       THEN /\ used_ids' = collect_used_player_ids(rosters, matchups_all_weeks)
            /\ players_index' = SlimIndex(players_index_full, used_ids')
       ELSE /\ players_index' = players_index_full
            /\ UNCHANGED used_ids
    /\ pc' = "name_rosters"
    /\ UNCHANGED <<entry, attempt, env, files, fetched, weekLocals, results, draftLocals,
                   indexLocals, rosters_named, matchups_named_current, out, saveLocals, ghost>>

\* owners = {u["user_id"]: display_name or username or "Unknown"}
OwnerName(us, owner_id) ==
    LET mine == {i \in DOMAIN us : us[i].user_id = owner_id}
        u == us[CHOOSE i \in mine : \A j \in mine : i >= j]
    IN IF mine = {} THEN PyStr(<<"U", "n", "k", "n", "o", "w", "n">>)
       ELSE IF Truthy(PyGet(u, "display_name")) THEN PyGet(u, "display_name")
       ELSE IF Truthy(PyGet(u, "username")) THEN PyGet(u, "username")
       ELSE PyStr(<<"U", "n", "k", "n", "o", "w", "n">>)

\* (settings.get(a) or 0) + (settings.get(b) or 0)/100, in hundredths
Points(settings, a, b) ==
    [hundredths |->
        100 * (IF Truthy(PyGet(settings, a)) THEN PyGet(settings, a).int ELSE 0)
        + (IF Truthy(PyGet(settings, b)) THEN PyGet(settings, b).int ELSE 0)]

RosterNamed(r, us, idx) ==
    [roster_id |-> PyGet(r, "roster_id"),
     owner_id |-> PyGet(r, "owner_id"),
     owner_name |-> OwnerName(us, PyGet(r, "owner_id")),
     record |-> PyGet(PyGetOr(r, "metadata", EmptyDict), "record"),
     streak |-> PyGet(PyGetOr(r, "metadata", EmptyDict), "streak"),
     waiver_position |-> PyGet(PyGetOr(r, "settings", EmptyDict), "waiver_position"),
     fpts |-> Points(PyGetOr(r, "settings", EmptyDict), "fpts", "fpts_decimal"),
     fpts_against |->
        Points(PyGetOr(r, "settings", EmptyDict), "fpts_against", "fpts_against_decimal"),
     players |-> resolve_ids(PyGet(r, "players"), idx),
     starters |-> resolve_ids(PyGet(r, "starters"), idx),
     reserve |-> resolve_ids(PyGet(r, "reserve"), idx)]

RostersNamed(rs, us, idx) == [i \in DOMAIN rs |-> RosterNamed(rs[i], us, idx)]

NameRosters ==
    /\ pc = "name_rosters"
    /\ rosters_named' = RostersNamed(rosters, users, players_index)
    /\ pc' = "name_matchups"
    /\ UNCHANGED <<entry, attempt, env, files, fetched, weekLocals, results, draftLocals,
                   indexLocals, used_ids, players_index, matchups_named_current, out,
                   saveLocals, ghost>>

\* (matchups_all_weeks.get("by_week") or {}).get(str(week), []) or []
CurrentWeekArr(mbw, wk) ==
    IF IntStr(wk) \in DOMAIN mbw.by_week THEN mbw.by_week[IntStr(wk)] ELSE <<>>

NameMatchups ==
    /\ pc = "name_matchups"
    /\ matchups_named_current' =
        name_matchups(CurrentWeekArr(matchups_all_weeks, week), players_index)
    /\ pc' = "build"
    /\ UNCHANGED <<entry, attempt, env, files, fetched, weekLocals, results, draftLocals,
                   indexLocals, used_ids, players_index, rosters_named, out, saveLocals, ghost>>

\* The snapshot literal is evaluated: fetched_at reads the clock, and the
\* "drafts_pkg" member calls fetch_drafts_package(LEAGUE_ID) again.
BuildBegin ==
    /\ pc = "build"
    /\ \E t \in now..MaxClock :
        /\ now' = t
        /\ fetched_at' = t
    /\ pc' = "drafts"
    /\ ret_pc' = "snapshot"
    /\ UNCHANGED <<entry, attempt, runs, failures, catalog, files, fetched, weekLocals, results,
                   drafts, d, picks_by_draft, traded_picks_by_draft, indexLocals, derived,
                   snapshot, path_ts, ghost>>

\* ts reads the clock; the snapshot is dumped to the timestamped path
WriteArchive ==
    /\ pc = "write_archive"
    /\ \E t \in now..MaxClock :
        LET path == ArchivePath(season, week, t)
        IN /\ now' = t
           /\ path_ts' = path
           /\ archive' = (path :> JsonDumpSnapshot(snapshot)) @@ archive
           /\ writes' = [writes EXCEPT !.archive =
                            (path :> (IF path \in DOMAIN @ THEN @[path] ELSE 0) + 1) @@ @]
    /\ pc' = "write_latest"
    /\ UNCHANGED <<entry, attempt, runs, failures, catalog, cache_file, latest, fetched,
                   weekLocals, results, draftLocals, indexLocals, derived, fetched_at, snapshot,
                   ghost>>

\* The same snapshot is dumped to latest.json; the summary is printed
WriteLatest ==
    /\ pc = "write_latest"
    /\ latest' = JsonDumpSnapshot(snapshot)
    /\ writes' = [writes EXCEPT !.latest = @ + 1]
    /\ pc' = "done"
    /\ UNCHANGED <<entry, attempt, env, cache_file, archive, fetched, weekLocals, results,
                   draftLocals, indexLocals, derived, saveLocals, ghost>>

\* ------------------------------------------------------------------------
\* Calls from outside of the functions main uses
\* ------------------------------------------------------------------------
NoWeekLocals == week_to' = 0 /\ w' = 0 /\ by_week' = EmptyDict

\* The values of week_to the per-week fetchers are called with
WeekToInputs ==
    {PyInt(n) : n \in (0 - 5)..MaxWeek}
    \cup {None, PyStr(<<>>), PyStr(<<"a", "b", "c">>), PyStr(<<"2">>), PyStr(<<"-", "5">>)}

CallFetchMatchupsByWeek ==
    \E raw \in WeekToInputs :
        /\ Begin("fetch_matchups_by_week", raw)
        /\ pc' = "matchups"
        /\ week_to' = CoerceWeekTo(raw)
        /\ w' = 1
        /\ by_week' = EmptyDict
        /\ force_refresh' = FALSE
        /\ out' = <<>>

CallFetchTransactionsByWeek ==
    \E raw \in WeekToInputs :
        /\ Begin("fetch_transactions_by_week", raw)
        /\ pc' = "transactions"
        /\ week_to' = CoerceWeekTo(raw)
        /\ w' = 1
        /\ by_week' = EmptyDict
        /\ force_refresh' = FALSE
        /\ out' = <<>>

CallGetPlayersIndex ==
    \E force \in BOOLEAN :
        /\ Begin("get_players_index", None)
        /\ pc' = "players_index"
        /\ force_refresh' = force
        /\ NoWeekLocals
        /\ out' = <<>>

\* Somebody deletes the cache file between two calls; what the last call
\* returned is no longer at hand
DeleteCache ==
    /\ AtRest
    /\ cache_file # NoFile
    /\ cache_file' = NoFile
    /\ prev' = <<NoCall, NoCall>>
    /\ pc' = "idle"
    /\ UNCHANGED <<entry, attempt, env, archive, latest, writes, fetched, weekLocals, results, draftLocals,
                   indexLocals, derived, saveLocals, fetch_log, start>>

\* The remote publishes another catalog
CatalogChange ==
    /\ AtRest
    /\ \E c \in RemoteCatalogs \ {catalog} : catalog' = c
    /\ UNCHANGED <<ctl, runs, failures, now, files, fetched, weekLocals, results, draftLocals,
                   indexLocals, derived, saveLocals, ghost>>

\* ------------------------------------------------------------------------
\* The runs of main
\* ------------------------------------------------------------------------
NoLocals ==
    /\ state = Unset /\ week = 0 /\ season = <<>> /\ league = Unset
    /\ users = <<>> /\ rosters = <<>>
    /\ week_to = 0 /\ w = 0 /\ by_week = EmptyDict
    /\ matchups_all_weeks = Unset /\ transactions_all_weeks = Unset
    /\ drafts_pkg = Unset /\ league_traded_picks = <<>>
    /\ ret_pc = "" /\ drafts = <<>> /\ d = 0
    /\ picks_by_draft = EmptyDict /\ traded_picks_by_draft = EmptyDict
    /\ force_refresh = FALSE /\ players_index_full = EmptyDict
    /\ used_ids = {} /\ players_index = EmptyDict
    /\ rosters_named = <<>> /\ matchups_named_current = <<>> /\ out = <<>>
    /\ fetched_at = 0 /\ snapshot = Unset /\ path_ts = <<>>

NoWrites == [archive |-> EmptyDict, latest |-> 0, cache |-> 0]

\* A fresh checkout: no file yet, nothing called yet
Init ==
    /\ entry = "main" /\ pc = "idle" /\ attempt = 1
    /\ runs = 0 /\ failures = 0 /\ now = 0 /\ catalog = CatalogA
    /\ cache_file = NoFile /\ archive = EmptyDict /\ latest = NoFile
    /\ writes = NoWrites
    /\ NoLocals
    /\ fetch_log = <<>>
    /\ start = FilesNow(None)
    /\ prev = <<NoCall, NoCall>>

MainSteps ==
    \/ GetRetry
    \/ FetchStateOk \/ FetchLeagueOk \/ FetchUsersOk \/ FetchRostersOk
    \/ FetchRequiredRaise
    \/ FetchMatchupsOk \/ FetchMatchupsRaise
    \/ FetchTransactionsOk \/ FetchTransactionsRaise
    \/ FetchDraftsOk \/ FetchDraftsRaise
    \/ FetchPicksOk \/ FetchPicksRaise
    \/ FetchTradedPicksOk \/ FetchTradedPicksRaise
    \/ FetchLeagueTradedPicksOk \/ FetchLeagueTradedPicksRaise
    \/ PlayersIndexLoad \/ PlayersIndexMiss
    \/ FetchCatalogOk \/ FetchCatalogRaise
    \/ SlimPlayersIndex \/ NameRosters \/ NameMatchups
    \/ BuildBegin \/ WriteArchive \/ WriteLatest

Next == StartMain \/ MainSteps

\* main, run again and again
Spec == Init /\ [][Next]_vars

\* ------------------------------------------------------------------------
\* One run of main, over the files earlier runs left
\* ------------------------------------------------------------------------
\* What a run of week 1 at second 0, with no request failing, composes
EarlierSnapshot ==
    LET st == [week |-> PyInt(1), season |-> PyStr(Season)]
        maw == [by_week |-> (IntStr(1) :> RemoteMatchups(1))]
        idx == SlimIndex(Lite(CatalogA), collect_used_player_ids(RemoteRosters, maw))
        id1 == PyGet(RemoteDrafts[2], "draft_id").str
    IN [snapshot_version |-> 3,
        fetched_at |-> 0,
        season |-> SeasonOf(st),
        week |-> CoerceWeek(st),
        state |-> st,
        league |-> [sleeper_league_obj |-> RemoteLeague],
        users |-> RemoteUsers,
        rosters |-> RemoteRosters,
        rosters_named |-> RostersNamed(RemoteRosters, RemoteUsers, idx),
        matchups_all_weeks |-> maw,
        matchups_named_current |-> name_matchups(CurrentWeekArr(maw, 1), idx),
        transactions_all_weeks |-> [by_week |-> (IntStr(1) :> RemoteTransactions(1))],
        league_traded_picks |-> RemoteLeagueTradedPicks,
        drafts_pkg |-> Package(RemoteDrafts, (id1 :> RemotePicks(id1)),
                               (id1 :> RemoteTradedPicks(id1))),
        players_index |-> idx]

\* The files as earlier runs may have left them: none, or those of one run
EarlierFiles ==
    {[archive |-> EmptyDict, latest |-> NoFile, cache_file |-> NoFile, writes |-> NoWrites],
     [archive |-> (ArchivePath(Season, 1, 0) :> JsonDumpSnapshot(EarlierSnapshot)),
      latest |-> JsonDumpSnapshot(EarlierSnapshot),
      cache_file |-> JsonDumpDict(Lite(CatalogA)),
      writes |-> [archive |-> (ArchivePath(Season, 1, 0) :> 1), latest |-> 1, cache |-> 1]]}

InitRun ==
    /\ entry = "main" /\ pc = "idle" /\ attempt = 1
    /\ runs = MaxRuns - 1 /\ failures = 0 /\ now = 0 /\ catalog = CatalogA
    /\ \E f \in EarlierFiles :
        /\ cache_file = f.cache_file /\ archive = f.archive /\ latest = f.latest
        /\ writes = f.writes
    /\ NoLocals
    /\ fetch_log = <<>>
    /\ start = FilesNow(None)
    /\ prev = <<NoCall, NoCall>>

\* The last run of main
SpecRun == InitRun /\ [][Next]_vars

\* ------------------------------------------------------------------------
\* The per-week fetchers, called with any week_to
\* ------------------------------------------------------------------------
NextWeeks ==
    \/ CallFetchMatchupsByWeek \/ CallFetchTransactionsByWeek
    \/ GetRetry
    \/ FetchMatchupsOk \/ FetchMatchupsRaise
    \/ FetchTransactionsOk \/ FetchTransactionsRaise

SpecWeeks == Init /\ [][NextWeeks]_vars

\* ------------------------------------------------------------------------
\* get_players_index, called with either force_refresh
\* ------------------------------------------------------------------------
InitCache ==
    /\ entry = "get_players_index" /\ pc = "idle" /\ attempt = 1
    /\ runs = 0 /\ failures = 0 /\ now = 0 /\ catalog \in RemoteCatalogs
    /\ cache_file = NoFile /\ archive = EmptyDict /\ latest = NoFile
    /\ writes = NoWrites
    /\ NoLocals
    /\ fetch_log = <<>>
    /\ start = FilesNow(None)
    /\ prev = <<NoCall, NoCall>>

NextCache ==
    \/ CallGetPlayersIndex
    \/ GetRetry
    \/ PlayersIndexLoad \/ PlayersIndexMiss
    \/ FetchCatalogOk \/ FetchCatalogRaise
    \/ DeleteCache \/ CatalogChange

SpecCache == InitCache /\ [][NextCache]_vars

\* ------------------------------------------------------------------------
\* main after its fetches, over any league payload
\* ------------------------------------------------------------------------
\* The raw identifiers of a payload: a player id as a str and as an int, a
\* DEF code, and a four-letter str no catalog knows
IdUniverse == {PyStr(<<"7">>), PyInt(12), PyStr(<<"S", "F">>), PyStr(<<"Q", "B", "X", "Y">>)}

\* The places of a payload that hold identifiers: 1..3 are the roster's
\* players, starters and reserve; then players and starters of each week
SlotCount(n) == 3 + 2 * n

\* Placements of up to MaxIds identifiers, in the order of the places
Placements(n) ==
    {pl \in UNION {[1..k -> (1..SlotCount(n)) \X IdUniverse] : k \in 0..MaxIds} :
        \A i \in DOMAIN pl : \A j \in DOMAIN pl : i < j => pl[i][1] <= pl[j][1]}

IdsAt(pl, slot) ==
    LET here == SelectSeq(pl, LAMBDA e : e[1] = slot)
    IN [i \in DOMAIN here |-> here[i][2]]

\* The list at a place; an empty place holds null or an empty list
ListAt(pl, slot) ==
    IF IdsAt(pl, slot) # <<>> THEN PyList(IdsAt(pl, slot))
    ELSE IF slot % 2 = 1 THEN None ELSE PyList(<<>>)

DrawnRosters(pl) ==
    <<[roster_id |-> PyInt(1), owner_id |-> PyStr(<<"u", "1">>),
       players |-> ListAt(pl, 1), starters |-> ListAt(pl, 2), reserve |-> ListAt(pl, 3)]>>

\* The matchups of week wk: none when the week's places are empty (as for
\* a week whose fetch failed), else one entry
DrawnWeek(pl, wk) ==
    IF IdsAt(pl, 2 + 2 * wk) = <<>> /\ IdsAt(pl, 3 + 2 * wk) = <<>> THEN <<>>
    ELSE <<[matchup_id |-> PyInt(wk), roster_id |-> PyInt(1),
            players |-> ListAt(pl, 2 + 2 * wk), starters |-> ListAt(pl, 3 + 2 * wk)]>>

DrawnMatchups(pl, n) ==
    [by_week |-> [k \in {IntStr(wk) : wk \in 1..n} |->
                    DrawnWeek(pl, CHOOSE wk \in 1..n : IntStr(wk) = k)]]

\* main at line 353: the fetches are done, get_players_index has returned
InitResolve ==
    /\ entry = "main" /\ pc = "slim" /\ attempt = 1
    /\ runs = MaxRuns /\ failures = 0 /\ now = 0 /\ catalog \in RemoteCatalogs
    /\ cache_file = JsonDumpDict(Lite(catalog)) /\ archive = EmptyDict /\ latest = NoFile
    /\ writes = [archive |-> EmptyDict, latest |-> 0, cache |-> 1]
    /\ week \in 1..MaxWeek
    /\ state = [week |-> PyInt(week), season |-> PyStr(Season)]
    /\ season = Season /\ league = RemoteLeague /\ users = RemoteUsers
    /\ \E pl \in Placements(week) :
        /\ rosters = DrawnRosters(pl)
        /\ matchups_all_weeks = DrawnMatchups(pl, week)
    /\ week_to = week /\ w = week /\ by_week = EmptyDict
    /\ transactions_all_weeks = [by_week |-> [k \in {IntStr(wk) : wk \in 1..week} |-> <<>>]]
    /\ drafts_pkg = Package(<<>>, EmptyDict, EmptyDict) /\ league_traded_picks = <<>>
    /\ ret_pc = "league_traded_picks" /\ drafts = <<>> /\ d = 0
    /\ picks_by_draft = EmptyDict /\ traded_picks_by_draft = EmptyDict
    /\ force_refresh = FALSE /\ players_index_full = Lite(catalog)
    /\ used_ids = {} /\ players_index = EmptyDict
    /\ rosters_named = <<>> /\ matchups_named_current = <<>> /\ out = <<>>
    /\ fetched_at = 0 /\ snapshot = Unset /\ path_ts = <<>>
    /\ fetch_log = <<>>
    /\ start = FilesNow(None)
    /\ prev = <<NoCall, [ok |-> TRUE, force |-> FALSE, ret |-> Lite(catalog)]>>

NextResolve == SlimPlayersIndex \/ NameRosters \/ NameMatchups

SpecResolve == InitResolve /\ [][NextResolve]_vars

\* ------------------------------------------------------------------------
\* resolve_ids, called with any list and any reference mapping
\* ------------------------------------------------------------------------
\* None, and the lists of up to MaxIds identifiers
IdLists == {None} \cup {PyList(l) : l \in UNION {[1..k -> IdUniverse] : k \in 0..MaxIds}}

\* Reference mappings: a cached index, or one slimmed for a league (which
\* maps an identifier the catalog lacks to an empty record)
Indexes ==
    {Lite(c) : c \in RemoteCatalogs}
    \cup {SlimIndex(Lite(CatalogA), {<<"7">>, <<"Q", "B", "X", "Y">>})}

CallResolveIds ==
    \E ids \in IdLists, idx \in Indexes :
        /\ Begin("resolve_ids", [ids |-> ids, idx |-> idx])
        /\ out' = resolve_ids(ids, idx)
        /\ pc' = "returned"
        /\ force_refresh' = FALSE
        /\ NoWeekLocals

SpecResolveIds == Init /\ [][CallResolveIds]_vars

\* ------------------------------------------------------------------------
\* Properties
\* ------------------------------------------------------------------------
Last(q) == q[Len(q)]

\* The get calls of this run that raised
FailedCalls == {i \in DOMAIN fetch_log : ~fetch_log[i].ok}

WeekFailed(ep, key) ==
    \E i \in FailedCalls : fetch_log[i].ep = ep /\ fetch_log[i].arg = key

\* The decimal strings of the week numbers, written out
WeekKeys == <<<<"1">>, <<"2">>, <<"3">>, <<"4">>, <<"5">>>>

\* max(upper_week, 1) for a number (an int, or the numeral "2"), and 1 for
\* any other value
UpperWeek(raw) ==
    IF IsInt(raw) THEN Max(raw.int, 1)
    ELSE IF raw = PyStr(<<"2">>) THEN 2
    ELSE 1

ByWeekFetchers == {"fetch_matchups_by_week", "fetch_transactions_by_week"}

ByWeekResult ==
    IF entry = "fetch_matchups_by_week" THEN matchups_all_weeks.by_week
    ELSE transactions_all_weeks.by_week

ByWeekRemote(k) ==
    IF entry = "fetch_matchups_by_week" THEN RemoteMatchups(k) ELSE RemoteTransactions(k)

ByWeekEndpoint == IF entry = "fetch_matchups_by_week" THEN "matchups" ELSE "transactions"

\* C1: whatever upper_week is and whichever weeks fail, a per-week fetcher
\* never raises, and it returns a by_week whose keys are exactly "1" ..
\* str(max(upper_week, 1)): a failing week maps to the empty list, every
\* other week to what its fetch returned.
ByWeekIsTotal ==
    entry \in ByWeekFetchers =>
        /\ pc # "crashed"
        /\ pc = "returned" =>
            /\ DOMAIN ByWeekResult = {WeekKeys[k] : k \in 1..UpperWeek(start.arg)}
            /\ \A k \in 1..UpperWeek(start.arg) :
                ByWeekResult[WeekKeys[k]] =
                    IF WeekFailed(ByWeekEndpoint, WeekKeys[k]) THEN <<>> ELSE ByWeekRemote(k)

\* A call with upper_week = 2 whose week 1 failed and whose week 2 did not
ByWeekPartialFailure ==
    /\ entry = "fetch_matchups_by_week"
    /\ pc = "returned"
    /\ start.arg = PyInt(2)
    /\ WeekFailed("matchups", <<"1">>)
    /\ ~WeekFailed("matchups", <<"2">>)
    /\ matchups_all_weeks.by_week[<<"2">>] # <<>>

RequiredFailed == \E i \in FailedCalls : fetch_log[i].ep \in RequiredSites

\* C2: when a required top-level fetch (state, league, users, rosters) of
\* a run of main raises, the error leaves main, and the run neither writes
\* nor changes the archive files and latest.json.
RequiredFailureWritesNothing ==
    (entry = "main" /\ RequiredFailed) =>
        /\ pc = "crashed"
        /\ archive = start.archive
        /\ latest = start.latest
        /\ writes.archive = start.writes.archive
        /\ writes.latest = start.writes.latest

\* The rosters fetch raised in a run that found the files of an earlier one
RostersFailedOverEarlierFiles ==
    /\ entry = "main"
    /\ pc = "crashed"
    /\ fetch_log # <<>>
    /\ Last(fetch_log).ep = "rosters"
    /\ ~Last(fetch_log).ok
    /\ latest # NoFile
    /\ archive # EmptyDict

AbsorbedSites == {"matchups", "transactions", "picks", "traded_picks", "league_traded_picks"}

\* What the snapshot holds for the item a get call was about
SnapshotItem(call) ==
    IF call.ep = "matchups" THEN snapshot.matchups_all_weeks.by_week[call.arg]
    ELSE IF call.ep = "transactions" THEN snapshot.transactions_all_weeks.by_week[call.arg]
    ELSE IF call.ep = "picks" THEN snapshot.drafts_pkg.picks_by_draft[call.arg]
    ELSE IF call.ep = "traded_picks" THEN snapshot.drafts_pkg.traded_picks_by_draft[call.arg]
    ELSE snapshot.league_traded_picks

\* C3: a run of main in which only fetches of the absorbed kinds fail does
\* not abort; once it is done, every failed item is an empty list in the
\* snapshot, and the archive file and latest.json are written.
AbsorbedFailuresDegrade ==
    (entry = "main" /\ \A i \in FailedCalls : fetch_log[i].ep \in AbsorbedSites) =>
        /\ pc # "crashed"
        /\ pc = "done" =>
            /\ \A i \in FailedCalls : SnapshotItem(fetch_log[i]) = <<>>
            /\ path_ts \in DOMAIN archive
            /\ archive[path_ts] = JsonDumpSnapshot(snapshot)
            /\ latest = JsonDumpSnapshot(snapshot)

\* C8: no archive path is written more than once, and a completed run has
\* overwritten latest.json with the content of its own archive file.
ArchiveWrittenOnce ==
    /\ \A path \in DOMAIN writes.archive : writes.archive[path] <= 1
    /\ (entry = "main" /\ pc = "done") =>
        /\ writes.latest = start.writes.latest + 1
        /\ latest = archive[path_ts]

\* The requests main is meant to issue, in order, for the week and the
\* drafts it saw
ExpectedCalls ==
    <<<<"state", <<>>>>, <<"league", <<>>>>, <<"users", <<>>>>, <<"rosters", <<>>>>>>
    \o [k \in 1..week |-> <<"matchups", WeekKeys[k]>>]
    \o [k \in 1..week |-> <<"transactions", WeekKeys[k]>>]
    \o <<<<"drafts", <<>>>>, <<"picks", Draft1>>, <<"traded_picks", Draft1>>>>
    \o <<<<"league_traded_picks", <<>>>>>>

IssuedCalls == [i \in DOMAIN fetch_log |-> <<fetch_log[i].ep, fetch_log[i].arg>>]

\* C9: a run of main issues each fetch once, in the order state, league,
\* users, rosters, matchups 1..week, transactions 1..week, drafts with the
\* picks and traded picks of each draft, league traded picks; the catalog
\* is fetched, if at all, after all of them, and nothing after it; the
\* snapshot holds the draft package fetched at its place in that order.
FetchOrder ==
    (entry = "main" /\ pc = "done") =>
        /\ IssuedCalls \in {ExpectedCalls, ExpectedCalls \o <<<<"catalog", <<>>>>>>}
        /\ snapshot.drafts_pkg = drafts_pkg

\* The fields under which a resolved roster and a resolved matchup list
\* their participants
NamedRosterFields == {"players", "starters", "reserve"}

NamedMatchupFields == {"starters", "players"}

\* Every resolved participant of the snapshot in the making
ResolvedParticipants ==
    UNION {Range(rosters_named[i][k]) : i \in DOMAIN rosters_named, k \in NamedRosterFields}
    \cup UNION {Range(matchups_named_current[i][k]) :
                  i \in DOMAIN matchups_named_current, k \in NamedMatchupFields}

\* C4: once main has resolved the rosters and the current week's matchups,
\* the id of every resolved participant is a purely alphabetic string of
\* length 2 or 3, or a key of the players_index that goes into the snapshot.
ResolvedIdsAreKnown ==
    (entry = "main" /\ pc = "build") =>
        \A p \in ResolvedParticipants :
            IsDefCode(p.id) \/ p.id.str \in DOMAIN players_index

\* An identifier no catalog knows sits on the reserve list only, and is
\* resolved against the empty record the narrowed index maps it to
UnknownReserveResolved ==
    /\ entry = "main" /\ pc = "build"
    /\ \E p \in Range(rosters_named[1].reserve) :
        /\ p.id = PyStr(<<"Q", "B", "X", "Y">>)
        /\ players_index[p.id.str] = EmptyDict
    /\ rosters_named[1].players = <<>>
    /\ rosters_named[1].starters = <<>>

\* The raw identifiers of the fetched rosters and of the matchups of all weeks
RawIdentifiers ==
    UNION {Range(ListOrEmpty(PyGet(rosters[i], k))) :
             i \in DOMAIN rosters, k \in NamedRosterFields}
    \cup UNION {UNION {Range(ListOrEmpty(PyGet(matchups_all_weeks.by_week[wk][i], k))) :
                         i \in DOMAIN matchups_all_weeks.by_week[wk], k \in NamedMatchupFields}
                  : wk \in DOMAIN matchups_all_weeks.by_week}

\* C10: the resolved rosters and the resolved matchups of the current week,
\* computed with the narrowed players_index, equal those computed with the
\* full index, and the keys of the narrowed index are exactly the
\* stringified identifiers of rosters and matchups that are not DEF codes.
NarrowingKeepsViews ==
    (entry = "main" /\ pc = "build") =>
        /\ rosters_named = RostersNamed(rosters, users, players_index_full)
        /\ matchups_named_current =
            name_matchups(CurrentWeekArr(matchups_all_weeks, week), players_index_full)
        /\ DOMAIN players_index = {Str(pid) : pid \in {q \in RawIdentifiers : ~IsDefCode(q)}}

\* The narrowed index dropped catalog entries, one of them the entry of a
\* DEF code in use, and a participant got its fields from the entry kept
NarrowedIndexInUse ==
    /\ entry = "main" /\ pc = "build"
    /\ <<"S", "F">> \in DOMAIN players_index_full
    /\ <<"S", "F">> \notin DOMAIN players_index
    /\ \E p \in ResolvedParticipants : p.id = PyStr(<<"S", "F">>)
    /\ \E p \in ResolvedParticipants :
        p.id = PyStr(<<"7">>) /\ PyGet(p, "pos") = PyStr(<<"R", "B">>)

\* The places of the list resolve_ids was called with whose stringified
\* identifier is a key of the reference mapping it was called with
KeyedPlaces ==
    IF ~Truthy(start.arg.ids) THEN {}
    ELSE {i \in DOMAIN start.arg.ids.list : Str(start.arg.ids.list[i]) \in DOMAIN start.arg.idx}

\* The reference entry of the identifier at place i
ReferenceEntry(i) == start.arg.idx[Str(start.arg.ids.list[i])]

\* C5, as stated: for every identifier whose stringified form is a key of
\* the reference mapping, resolve_ids returns a record whose id is the
\* stringified identifier and whose name, pos, team and status are those
\* of the reference entry.
ResolveReturnsEntry ==
    (entry = "resolve_ids" /\ pc = "returned") =>
        \A i \in KeyedPlaces :
            /\ out[i].id = PyStr(Str(start.arg.ids.list[i]))
            /\ \A k \in {"name", "pos", "team", "status"} :
                PyGet(out[i], k) = PyGet(ReferenceEntry(i), k)

\* C5, amended: for every identifier that is not a DEF code and whose
\* stringified form is a key of the reference mapping, resolve_ids returns
\* a record whose id is the stringified identifier, whose pos, team and
\* status are those of the reference entry (null where the entry lacks
\* them), and whose name is the entry's name when that is non-empty and
\* the stringified identifier otherwise.
ResolveReturnsEntryOrFallback ==
    (entry = "resolve_ids" /\ pc = "returned") =>
        \A i \in {j \in KeyedPlaces : ~IsDefCode(start.arg.ids.list[j])} :
            /\ out[i].id = PyStr(Str(start.arg.ids.list[i]))
            /\ \A k \in {"pos", "team", "status"} :
                PyGet(out[i], k) = PyGet(ReferenceEntry(i), k)
            /\ PyGet(out[i], "name") \in
                {PyGet(ReferenceEntry(i), "name"), PyStr(Str(start.arg.ids.list[i]))}
            /\ PyGet(out[i], "name") = PyGet(ReferenceEntry(i), "name")
                <=> PyGet(ReferenceEntry(i), "name") \notin {None, PyStr(<<>>)}

\* resolve_ids was given an int whose entry has no name and its team, and
\* a str whose entry has all four fields
ResolvedNamelessAndNamed ==
    /\ entry = "resolve_ids" /\ pc = "returned"
    /\ \E i \in KeyedPlaces :
        /\ start.arg.ids.list[i] = PyInt(12)
        /\ PyGet(ReferenceEntry(i), "name") = None
        /\ out[i].name = PyStr(<<"1", "2">>)
    /\ \E i \in KeyedPlaces :
        /\ start.arg.ids.list[i] = PyStr(<<"7">>)
        /\ out[i].team = PyStr(<<"S", "F">>)

\* C6: a call of get_players_index that finds the cache file and is not
\* forced issues no catalog fetch, writes no cache file and leaves the
\* file as it was; and of two calls in a row, neither forced and the file
\* not deleted in between, the second returns what the first returned.
CacheIsReused ==
    entry = "get_players_index" =>
        /\ (pc # "idle" /\ start.cache_file # NoFile /\ ~force_refresh) =>
            /\ pc \notin {"catalog", "crashed"}
            /\ fetch_log = <<>>
            /\ writes.cache = start.writes.cache
            /\ cache_file = start.cache_file
        /\ (pc = "returned" /\ prev[1].ok /\ prev[2].ok /\ ~prev[1].force /\ ~prev[2].force) =>
            /\ prev[2].ret = prev[1].ret
            /\ fetch_log = <<>>
            /\ cache_file = start.cache_file

\* The first call downloaded and wrote the cache, the remote catalog then
\* changed, and the second call returned the cached index all the same
SecondCallServedFromCache ==
    /\ entry = "get_players_index" /\ pc = "returned"
    /\ prev[1].ok /\ prev[2].ok /\ ~prev[1].force /\ ~prev[2].force
    /\ writes.cache = 1
    /\ prev[2].ret # Lite(catalog)
    /\ prev[2].ret # EmptyDict

\* C7: when the catalog fetch of get_players_index raises, the error
\* leaves get_players_index and the cache file is as it was before the
\* call: still missing, or still holding what it held.
FailedFetchKeepsCache ==
    (entry = "get_players_index" /\ pc # "idle" /\ FailedCalls # {}) =>
        /\ pc = "crashed"
        /\ cache_file = start.cache_file
        /\ writes.cache = start.writes.cache

\* A forced refresh failed over a cache file an earlier call had written
ForcedRefreshFailedOverCache ==
    /\ entry = "get_players_index" /\ pc = "crashed"
    /\ force_refresh
    /\ FailedCalls # {}
    /\ start.cache_file # NoFile
    /\ cache_file = JsonDumpDict(Lite(CatalogA))
====
